---- MODULE Spec2Model ----
(***************************************************************************)
(* Model of the quant-data-engine ingestion pipeline:                      *)
(*   cmd/data-engine/main.go        main, startDataProcessing, processData *)
(*   internal/storage/postgres.go   SaveMarketData, validateMarketData     *)
(*   internal/kafka (producer)      SendMarketData,                        *)
(*                                  validateMarketDataForKafka             *)
(*   internal/datasource            DataSourceFactory, DataSource          *)
(*                                                                         *)
(*   internal/schedule/schedule.go  Scheduler.Start                        *)
(*                                                                         *)
(* Three goroutines are modelled: main (mainPc), the data-processing       *)
(* goroutine started at main.go:74 (dpPc) and the stock-list goroutine of  *)
(* Scheduler.Start (stockPc).  A time.Ticker is its channel of capacity    *)
(* one (tickerC, stockTickerC).                                            *)
(*                                                                         *)
(* Spec is the process as main() composes it: both registered sources are  *)
(* ExchangeDataSource, whose GetMarketData returns one well-formed         *)
(* observation; the store and the bus succeed while they are open; any     *)
(* call may take arbitrarily long or never return.                         *)
(* CycleSpec is one execution of processData for any implementation of     *)
(* the DataSource interface and for sinks that may fail: GetMarketData     *)
(* may return an error or any batch, up to budget departures from the      *)
(* behaviour above.                                                        *)
(***************************************************************************)
EXTENDS Integers, Sequences, FiniteSets, TLC

(* ---- bounds ---- *)
\* processData executions begun per run
MaxCycles == 2
\* calls per cycle in which a source or a sink departs from the behaviour
\* of ExchangeDataSource.GetMarketData (one valid observation) and of a
\* reachable store and bus (success)
MaxFaults == 2
\* observations per fetched batch
\* the number of SaveMarketData calls made on one store
MaxSaves == 2

\* the number of goroutines calling into one DataSourceFactory
MaxClients == 2

\* the latest instant a caller of GetHistoricalData asks for
MaxTime == 5

\* the number of calls made on one KafkaProducer
MaxSends == 2

MaxBatch == 2

(* ---- program constants ---- *)
\* main.go:102
Symbols == <<"BTCUSDT", "ETHUSDT", "BNBUSDT">>
\* main.go:127
SourceNames == <<"binance", "okx">>

VARIABLES
    mainPc,     \* position of main()
    ctxDone,    \* ctx cancelled (cancel() called)
    dbState,    \* *PostgresStorage: "none", "open", "closed"
    kafkaState, \* *KafkaProducer:   "none", "open", "closed"
    sources,    \* DataSourceFactory.sources: name -> source
    forced,     \* main took the time.After branch of the shutdown select
    dpPc,       \* position of the goroutine running startDataProcessing
    tickerC,    \* messages buffered in ticker.C (capacity 1)
    lateTick,   \* the buffered tick fired while processData was executing
    running,    \* processData calls entered and not yet returned
    cycles,     \* processData calls begun
    symIdx,     \* index of symbol in the outer loop
    srcIdx,     \* index of sourceName in the inner loop
    data,       \* the batch returned by GetMarketData for the current pair
    log,        \* per pair of the current cycle: what was called, and result
    budget,     \* departures of sources and sinks still allowed
    db,         \* rows of table market_data
    bus,        \* observations delivered to the Kafka topic
    stockPc,    \* position of the goroutine of Scheduler.Start
    stockTickerC, \* messages buffered in the ticker of Scheduler.Start
    stockListed, \* a call of fetchStockList has returned
    visited,    \* the pairs the current cycle has come to, in order
    call,       \* the call under examination: function and arguments
    ret,        \* what that call returned
    mutex,      \* DataSourceFactory.mutex (sync.RWMutex)
    gor,        \* the goroutines calling into a DataSourceFactory
    latest      \* per name, the source of the last Register carried out

vars == <<mainPc, ctxDone, dbState, kafkaState, sources, forced, dpPc,
          tickerC, lateTick, running, cycles, symIdx, srcIdx, data, log,
          budget, db, bus, stockPc, stockTickerC, stockListed, visited,
          call, ret,
          mutex, gor, latest>>

mainVars == <<mainPc, ctxDone, dbState, kafkaState, sources, forced>>
cycleVars == <<symIdx, srcIdx, data, log, budget, db, bus, visited>>
stockVars == <<stockPc, stockTickerC, stockListed>>
unitVars == <<call, ret, mutex, gor, latest>>

(* ---- models.MarketData ---- *)
\* An identifier is a sequence, <<>> being the empty string; a timestamp is
\* a number, 0 standing for the zero time.Time.
MarketData(id, symbol, price, volume, timestamp, source) ==
    [ID |-> id, Symbol |-> symbol, Price |-> price, Volume |-> volume,
     Timestamp |-> timestamp, Source |-> source]

\* validateMarketData asking for the symbol before the id
validateMarketDataSymbolFirst(d) ==
    IF d.Symbol = "" THEN "symbol is required"
    ELSE IF d.ID = <<>> THEN "id is required"
    ELSE IF d.Price <= 0 THEN "price must be greater than 0"
    ELSE IF d.Volume < 0 THEN "volume cannot be negative"
    ELSE IF d.Timestamp = 0 THEN "timestamp is required"
    ELSE IF d.Source = "" THEN "source is required"
    ELSE ""

\* validateMarketData without the price rule
validateMarketDataNoPrice(d) ==
    IF d.ID = <<>> THEN "id is required"
    ELSE IF d.Symbol = "" THEN "symbol is required"
    ELSE IF d.Volume < 0 THEN "volume cannot be negative"
    ELSE IF d.Timestamp = 0 THEN "timestamp is required"
    ELSE IF d.Source = "" THEN "source is required"
    ELSE ""

\* validateMarketData letting a price of zero through
validateMarketDataZeroPrice(d) ==
    IF d.ID = <<>> THEN "id is required"
    ELSE IF d.Symbol = "" THEN "symbol is required"
    ELSE IF d.Price < 0 THEN "price must be greater than 0"
    ELSE IF d.Volume < 0 THEN "volume cannot be negative"
    ELSE IF d.Timestamp = 0 THEN "timestamp is required"
    ELSE IF d.Source = "" THEN "source is required"
    ELSE ""

\* postgres.go validateMarketData: "" is no error, otherwise the message
validateMarketData(d) ==
    IF d.ID = <<>> THEN "id is required"
    ELSE IF d.Symbol = "" THEN "symbol is required"
    ELSE IF d.Price <= 0 THEN "price must be greater than 0"
    ELSE IF d.Volume < 0 THEN "volume cannot be negative"
    ELSE IF d.Timestamp = 0 THEN "timestamp is required"
    ELSE IF d.Source = "" THEN "source is required"
    ELSE ""

\* validateMarketDataForKafka asking for a volume above zero as well
validateMarketDataForKafkaVolume(d) ==
    IF d.Symbol = "" THEN "symbol is required"
    ELSE IF d.Volume <= 0 THEN "volume is required"
    ELSE IF d.Timestamp = 0 THEN "timestamp is required"
    ELSE IF d.Source = "" THEN "source is required"
    ELSE ""

\* validateMarketDataForKafka without the timestamp rule
validateMarketDataForKafkaNoTimestamp(d) ==
    IF d.Symbol = "" THEN "symbol is required"
    ELSE IF d.Source = "" THEN "source is required"
    ELSE ""

\* kafka validateMarketDataForKafka
validateMarketDataForKafka(d) ==
    IF d.Symbol = "" THEN "symbol is required"
    ELSE IF d.Timestamp = 0 THEN "timestamp is required"
    ELSE IF d.Source = "" THEN "source is required"
    ELSE ""

Range(s) == {s[i] : i \in 1..Len(s)}

(* ---- storage.SaveMarketData ---- *)
\* the INSERT without its ON CONFLICT clause: the primary key on id makes
\* the Exec of a second row with the same id fail
InsertMarketDataPlain(rows, d) ==
    IF \E r \in rows : r.ID = d.ID
    THEN [err |-> TRUE, rows |-> rows]
    ELSE [err |-> FALSE, rows |-> rows \cup {d}]

\* tx.Exec of INSERT INTO market_data ... ON CONFLICT (id) DO NOTHING:
\* a row whose id is in the table is left as it is, without an error.
\* Result: [err, rows].
InsertMarketData(rows, d) ==
    IF \E r \in rows : r.ID = d.ID
    THEN [err |-> FALSE, rows |-> rows]
    ELSE [err |-> FALSE, rows |-> rows \cup {d}]

\* the loop over the batch (lines 138-149): the first Exec that fails ends
\* it. Result: [err, rows].
RECURSIVE InsertAll(_, _)
InsertAll(rows, batch) ==
    IF batch = <<>> THEN [err |-> FALSE, rows |-> rows]
    ELSE LET r == InsertMarketData(rows, Head(batch))
         IN IF r.err THEN r ELSE InsertAll(r.rows, Tail(batch))

\* the validation loop of SaveMarketData (lines 124-128)
SaveValidationFails(batch) ==
    \E i \in 1..Len(batch) : validateMarketData(batch[i]) # ""

\* the Execs that return without error when the statement failAt fails
ExecsDone(batch, failAt) ==
    IF failAt = 0 \/ failAt - 2 >= Len(batch) THEN Len(batch)
    ELSE failAt - 2

\* SaveMarketData opening its transaction before it validates the batch
SaveMarketDataBeginFirst(rows, batch, failAt) ==
    IF Len(batch) = 0 THEN [err |-> FALSE, rows |-> rows, began |-> TRUE]
    ELSE IF failAt = 1 \/ SaveValidationFails(batch)
    THEN [err |-> TRUE, rows |-> rows, began |-> TRUE]
    ELSE LET r == InsertAll(rows, SubSeq(batch, 1, ExecsDone(batch, failAt)))
         IN IF r.err \/ failAt # 0
            THEN [err |-> TRUE, rows |-> rows, began |-> TRUE]
            ELSE [err |-> FALSE, rows |-> r.rows, began |-> TRUE]

\* SaveMarketData executing its inserts on the pool, outside a transaction:
\* what was inserted before the failure stays
SaveMarketDataAutoCommit(rows, batch, failAt) ==
    IF Len(batch) = 0 THEN [err |-> FALSE, rows |-> rows, began |-> FALSE]
    ELSE IF SaveValidationFails(batch)
    THEN [err |-> TRUE, rows |-> rows, began |-> FALSE]
    ELSE IF failAt = 1 THEN [err |-> TRUE, rows |-> rows, began |-> TRUE]
    ELSE LET r == InsertAll(rows, SubSeq(batch, 1, ExecsDone(batch, failAt)))
         IN [err |-> r.err \/ failAt # 0, rows |-> r.rows, began |-> TRUE]

\* SaveMarketData(batch) on table rows (postgres.go:118-157). failAt is the
\* statement that returns an error: 0 none, 1 pool.Begin, 1 + k the Exec of
\* the k-th observation, beyond that Commit. The deferred Rollback discards
\* the inserts of a transaction that was not committed.
\* Result: [err, rows, began], began: pool.Begin was called.
SaveMarketData(rows, batch, failAt) ==
    IF Len(batch) = 0 THEN [err |-> FALSE, rows |-> rows, began |-> FALSE]
    ELSE IF SaveValidationFails(batch)
    THEN [err |-> TRUE, rows |-> rows, began |-> FALSE]
    ELSE IF failAt = 1 THEN [err |-> TRUE, rows |-> rows, began |-> TRUE]
    ELSE LET r == InsertAll(rows, SubSeq(batch, 1, ExecsDone(batch, failAt)))
         IN IF r.err \/ failAt # 0
            THEN [err |-> TRUE, rows |-> rows, began |-> TRUE]
            ELSE [err |-> FALSE, rows |-> r.rows, began |-> TRUE]

(* ---- kafka.SendMarketData ---- *)
SendValidationFails(batch) ==
    \E i \in 1..Len(batch) : validateMarketDataForKafka(batch[i]) # ""

\* what becomes of the message of one observation: "sent", or
\* json.Marshal fails ("marshal"), Produce fails ("produce"), or the
\* message is still in the producer's queue when Flush returns ("unflushed")
Fates == {"sent", "marshal", "produce", "unflushed"}

\* the indices of the batch, in order, whose fate is among kinds
RECURSIVE Indices(_, _, _)
Indices(fate, kinds, n) ==
    IF n = 0 THEN <<>>
    ELSE IF fate[n] \in kinds THEN Append(Indices(fate, kinds, n - 1), n)
    ELSE Indices(fate, kinds, n - 1)

\* a SendMarketData that returns at the first Marshal or Produce that fails
SendMarketDataStopAtFirst(topic, batch, fate) ==
    IF Len(batch) = 0
    THEN [err |-> FALSE, topic |-> topic, marshalled |-> <<>>, failed |-> 0]
    ELSE IF SendValidationFails(batch)
    THEN [err |-> TRUE, topic |-> topic, marshalled |-> <<>>, failed |-> 0]
    ELSE LET bad == Indices(fate, {"marshal", "produce"}, Len(batch))
             upTo == IF bad = <<>> THEN Len(batch) ELSE Head(bad)
             failed == Len(Indices(fate, Fates \ {"sent"}, upTo))
         IN [err |-> failed > 0,
             topic |-> topic \cup {batch[i] : i \in {j \in 1..upTo :
                                                     fate[j] = "sent"}},
             marshalled |-> [i \in 1..upTo |-> i],
             failed |-> failed]

\* SendMarketData(batch) on the contents of the topic (lines 65-121);
\* fate[i] is what becomes of the message of batch[i]. The loop goes
\* through the whole batch, counting the failures of Marshal and Produce,
\* and Flush adds the messages left in the queue.
\* Result: [err, topic, marshalled, failed], marshalled: the indices
\* json.Marshal was called for, failed: failedMessages.
SendMarketData(topic, batch, fate) ==
    IF Len(batch) = 0
    THEN [err |-> FALSE, topic |-> topic, marshalled |-> <<>>, failed |-> 0]
    ELSE IF SendValidationFails(batch)
    THEN [err |-> TRUE, topic |-> topic, marshalled |-> <<>>, failed |-> 0]
    ELSE LET failed == Len(Indices(fate, {"marshal", "produce"}, Len(batch)))
                       + Len(Indices(fate, {"unflushed"}, Len(batch)))
         IN [err |-> failed > 0,
             topic |-> topic \cup {batch[i] : i \in {j \in 1..Len(batch) :
                                                     fate[j] = "sent"}},
             marshalled |-> [i \in 1..Len(batch) |-> i],
             failed |-> failed]

(* ---- datasource.DataSource.GetMarketData ---- *)
\* the k-th observation of the batch fetched in cycle c for (symbol,
\* source), with a fresh identifier (uuid.New());
\* ok: the source filled it in correctly, otherwise with a zero price
Observation(c, symbol, source, k, ok) ==
    MarketData(<<c, symbol, source, k>>, symbol, IF ok THEN 1 ELSE 0, 0, 1,
               source)

\* ExchangeDataSource.GetMarketData: one well-formed observation
ExchangeGetMarketData(c, symbol, source) ==
    <<Observation(c, symbol, source, 1, TRUE)>>

\* the batches an implementation of DataSource may return without error
FetchBatches(c, symbol, source) ==
    UNION {{[k \in 1..n |-> Observation(c, symbol, source, k, f[k])] :
                f \in [1..n -> BOOLEAN]} : n \in 0..MaxBatch}

(* ---- the current (symbol, sourceName) pair ---- *)
Pairs == (1..Len(Symbols)) \X (1..Len(SourceNames))
pair == <<symIdx, srcIdx>>

\* fetch: "none", "absent", "call", "err", "empty", "ok"; save and send:
\* "none", "ok", "err"; batch: what GetMarketData returned; saveArg and
\* sendArg: what the sinks were called with; saves and sends: how many
\* times each sink was called
NoCall == [fetch |-> "none", batch |-> <<>>, save |-> "none",
           saveArg |-> <<>>, send |-> "none", sendArg |-> <<>>,
           saves |-> 0, sends |-> 0]
EmptyLog == [p \in Pairs |-> NoCall]

InCycle == dpPc \in {"resolve", "fetch", "save", "send"}

\* the process is running: neither returned from main nor os.Exit(1)
Alive == mainPc \notin {"exited", "fatal"}

\* `return` out of processData: back to the select of startDataProcessing
Return ==
    /\ symIdx' = 0
    /\ srcIdx' = 0
    /\ dpPc' = "select"
    /\ running' = running - 1

\* the two loops the other way round: sources outside, symbols inside
AdvanceSourcesOuter ==
    IF symIdx < Len(Symbols)
    THEN /\ symIdx' = symIdx + 1
         /\ srcIdx' = srcIdx
         /\ dpPc' = "resolve"
         /\ running' = running
    ELSE IF srcIdx < Len(SourceNames)
    THEN /\ symIdx' = 1
         /\ srcIdx' = srcIdx + 1
         /\ dpPc' = "resolve"
         /\ running' = running
    ELSE Return

\* `continue` / end of the inner loop body: the next pair, or the end of
\* processData and the return to the select of startDataProcessing
Advance ==
    IF srcIdx < Len(SourceNames)
    THEN /\ symIdx' = symIdx
         /\ srcIdx' = srcIdx + 1
         /\ dpPc' = "resolve"
         /\ running' = running
    ELSE IF symIdx < Len(Symbols)
    THEN /\ symIdx' = symIdx + 1
         /\ srcIdx' = 1
         /\ dpPc' = "resolve"
         /\ running' = running
    ELSE Return

\* a fetch error that returns from processData instead of continuing
OnFetchErrorReturn == Return

\* main.go:136-139  GetMarketData returned an error: log, continue
OnFetchError == Advance

\* an empty batch without the continue: falls through to SaveMarketData
OnEmptyBatchFallThrough ==
    /\ dpPc' = "save"
    /\ UNCHANGED <<symIdx, srcIdx, running>>

\* main.go:141-144  GetMarketData returned no observation: log, continue
OnEmptyBatch == Advance

\* a save error that returns from processData
OnSaveErrorReturn == Return

\* a save error without the continue: falls through to SendMarketData
OnSaveErrorFallThrough ==
    /\ dpPc' = "send"
    /\ UNCHANGED <<symIdx, srcIdx, running>>

\* main.go:147-150  SaveMarketData returned an error: log, continue
OnSaveError == Advance

\* a bus error that returns from processData
OnSendDoneReturn(err) == IF err THEN Return ELSE Advance

\* main.go:153-158  after SendMarketData: log an error if any; the loop
\* body ends either way
OnSendDone(err) == Advance

(* ---- main() ---- *)
\* main.go:35-39  storage.NewPostgresStorage()
NewPostgresStorage ==
    /\ mainPc = "newStorage"
    /\ \E ok \in BOOLEAN :
         IF ok THEN mainPc' = "newKafka" /\ dbState' = "open"
         ELSE mainPc' = "fatal" /\ dbState' = dbState
    /\ UNCHANGED <<ctxDone, kafkaState, sources, forced, dpPc, tickerC,
                   lateTick, running, cycles, cycleVars, stockVars>>
    /\ UNCHANGED unitVars

\* a failed NewKafkaProducer that is logged without ending the process
NewKafkaProducerContinue ==
    /\ mainPc = "newKafka"
    /\ \E ok \in BOOLEAN :
         IF ok THEN mainPc' = "register" /\ kafkaState' = "open"
         ELSE mainPc' = "register" /\ kafkaState' = kafkaState
    /\ UNCHANGED <<ctxDone, dbState, sources, forced, dpPc, tickerC,
                   lateTick, running, cycles, cycleVars, stockVars>>
    /\ UNCHANGED unitVars

\* main.go:42-46  kafka.NewKafkaProducer()
NewKafkaProducer ==
    /\ mainPc = "newKafka"
    /\ \E ok \in BOOLEAN :
         IF ok THEN mainPc' = "register" /\ kafkaState' = "open"
         ELSE mainPc' = "fatal" /\ kafkaState' = kafkaState
    /\ UNCHANGED <<ctxDone, dbState, sources, forced, dpPc, tickerC,
                   lateTick, running, cycles, cycleVars, stockVars>>
    /\ UNCHANGED unitVars

(* ---- datasource.DataSourceFactory ---- *)
\* A source is written as the name it answers to Name(); "" is the nil
\* DataSource.
Nil == ""

\* datasource.go:27-31  NewDataSourceFactory: make(map[string]DataSource)
NewDataSourceFactory == [n \in {} |-> Nil]

\* a Register that leaves a name already bound as it is
RegisterKeepFirst(registered, name, source) ==
    [n \in DOMAIN registered \cup {name} |->
        IF n \in DOMAIN registered THEN registered[n] ELSE source]

\* datasource.go:34-38  DataSourceFactory.Register: f.sources[name] = source
Register(registered, name, source) ==
    [n \in DOMAIN registered \cup {name} |->
        IF n = name THEN source ELSE registered[n]]

\* datasource.go:41-45  GetDataSource: f.sources[name], nil when unbound
GetDataSource(registered, name) ==
    IF name \in DOMAIN registered THEN registered[name] ELSE Nil

\* the orders in which the names of set S can come out of a range loop
RECURSIVE Orderings(_)
Orderings(S) ==
    IF S = {} THEN {<<>>}
    ELSE UNION {{<<n>> \o s : s \in Orderings(S \ {n})} : n \in S}

\* a ListDataSources that returns after the first append
ListDataSourcesOne(registered) ==
    IF DOMAIN registered = {} THEN {<<>>}
    ELSE {<<n>> : n \in DOMAIN registered}

\* datasource.go:48-56  ListDataSources: the keys of f.sources appended in
\* the order of the map's iteration, which Go leaves open
ListDataSources(registered) == Orderings(DOMAIN registered)

\* no call is under examination, or the call has not returned
Nothing == [fn |-> "none"]

\* sync.RWMutex unlocked: no writer inside, none announced, no reader
Unlocked == [writer |-> 0, pending |-> 0, readers |-> {}]

\* main.go:49-51  the two Register calls
RegisterSources ==
    /\ mainPc = "register"
    /\ sources' = Register(Register(sources, "binance", "binance"),
                           "okx", "okx")
    /\ mainPc' = "schedulerStart"
    /\ UNCHANGED <<ctxDone, dbState, kafkaState, forced, dpPc, tickerC,
                   lateTick, running, cycles, cycleVars, stockVars>>
    /\ UNCHANGED unitVars

\* a Start that makes its first fetchStockList in the goroutine of the
\* ticker loop and returns at once
SchedulerStartAsync ==
    /\ mainPc = "schedulerStart"
    /\ mainPc' = "startApi"
    /\ stockPc' = "fetchStockList"
    /\ UNCHANGED <<ctxDone, dbState, kafkaState, sources, forced, dpPc,
                   tickerC, lateTick, running, cycles, cycleVars,
                   stockTickerC, stockListed>>
    /\ UNCHANGED unitVars

\* main.go:60, schedule.go:27-29  scheduler.Start() calls fetchStockList
SchedulerStart ==
    /\ mainPc = "schedulerStart"
    /\ mainPc' = "fetchStockList"
    /\ UNCHANGED <<ctxDone, dbState, kafkaState, sources, forced, dpPc,
                   tickerC, lateTick, running, cycles, cycleVars, stockVars>>
    /\ UNCHANGED unitVars

\* schedule.go:29-40  fetchStockList returns (whatever its outcome), the
\* periodic goroutine is started and Start returns
SchedulerStarted ==
    /\ mainPc = "fetchStockList"
    /\ mainPc' = "startApi"
    /\ stockPc' = "range"
    /\ stockListed' = TRUE
    /\ UNCHANGED <<ctxDone, dbState, kafkaState, sources, forced, dpPc,
                   tickerC, lateTick, running, cycles, cycleVars,
                   stockTickerC>>
    /\ UNCHANGED unitVars

\* main.go:63-70  api.NewServer and go apiServer.Run(...)
StartApi ==
    /\ mainPc = "startApi"
    /\ mainPc' = "spawn"
    /\ UNCHANGED <<ctxDone, dbState, kafkaState, sources, forced, dpPc,
                   tickerC, lateTick, running, cycles, cycleVars, stockVars>>
    /\ UNCHANGED unitVars

\* the 30-minute ticker of schedule.go:32 fires
StockTick ==
    /\ Alive
    /\ stockPc # "none"
    /\ stockTickerC' = 1
    /\ UNCHANGED <<mainVars, dpPc, tickerC, lateTick, running, cycles,
                   cycleVars, stockPc, stockListed>>
    /\ UNCHANGED unitVars

\* schedule.go:34-35  for range ticker.C: fetchStockList() is called
StockFetch ==
    /\ Alive
    /\ stockPc = "range"
    /\ stockTickerC = 1
    /\ stockTickerC' = 0
    /\ stockPc' = "fetchStockList"
    /\ UNCHANGED <<mainVars, dpPc, tickerC, lateTick, running, cycles,
                   cycleVars, stockListed>>
    /\ UNCHANGED unitVars

\* schedule.go:35  fetchStockList() returns
StockFetchReturn ==
    /\ Alive
    /\ stockPc = "fetchStockList"
    /\ stockPc' = "range"
    /\ stockListed' = TRUE
    /\ UNCHANGED <<mainVars, dpPc, tickerC, lateTick, running, cycles,
                   cycleVars, stockTickerC>>
    /\ UNCHANGED unitVars

\* main.go:73-77  go startDataProcessing(...)
Spawn ==
    /\ mainPc = "spawn"
    /\ mainPc' = "waitQuit"
    /\ dpPc' = "spawned"
    /\ UNCHANGED <<ctxDone, dbState, kafkaState, sources, forced, tickerC,
                   lateTick, running, cycles, cycleVars, stockVars>>
    /\ UNCHANGED unitVars

\* main.go:82-87  <-quit, then cancel()
Shutdown ==
    /\ mainPc = "waitQuit"
    /\ mainPc' = "drain"
    /\ ctxDone' = TRUE
    /\ UNCHANGED <<dbState, kafkaState, sources, forced, dpPc, tickerC,
                   lateTick, running, cycles, cycleVars, stockVars>>
    /\ UNCHANGED unitVars

\* main.go:91  case <-dataProcessingDone
DrainGraceful ==
    /\ mainPc = "drain"
    /\ dpPc = "returned"
    /\ mainPc' = "stopped"
    /\ forced' = FALSE
    /\ UNCHANGED <<ctxDone, dbState, kafkaState, sources, dpPc, tickerC,
                   lateTick, running, cycles, cycleVars, stockVars>>
    /\ UNCHANGED unitVars

\* a shutdown that only waits for dataProcessingDone
DrainTimeoutNever ==
    /\ mainPc = "drain"
    /\ dpPc = "returned"
    /\ mainPc' = "stopped"
    /\ forced' = TRUE
    /\ UNCHANGED <<ctxDone, dbState, kafkaState, sources, dpPc, tickerC,
                   lateTick, running, cycles, cycleVars, stockVars>>
    /\ UNCHANGED unitVars

\* main.go:93  case <-time.After(5 * time.Second)
DrainTimeout ==
    /\ mainPc = "drain"
    /\ mainPc' = "stopped"
    /\ forced' = TRUE
    /\ UNCHANGED <<ctxDone, dbState, kafkaState, sources, dpPc, tickerC,
                   lateTick, running, cycles, cycleVars, stockVars>>
    /\ UNCHANGED unitVars

\* main.go:46  deferred kafkaProducer.Close(), run first on return
CloseKafka ==
    /\ mainPc = "stopped"
    /\ mainPc' = "closeDb"
    /\ kafkaState' = "closed"
    /\ UNCHANGED <<ctxDone, dbState, sources, forced, dpPc, tickerC,
                   lateTick, running, cycles, cycleVars, stockVars>>
    /\ UNCHANGED unitVars

\* main.go:39  deferred db.Close()
CloseDb ==
    /\ mainPc = "closeDb"
    /\ mainPc' = "exit"
    /\ dbState' = "closed"
    /\ UNCHANGED <<ctxDone, kafkaState, sources, forced, dpPc, tickerC,
                   lateTick, running, cycles, cycleVars, stockVars>>
    /\ UNCHANGED unitVars

\* main.go:32,98  deferred cancel(); main returns and the process ends
Exit ==
    /\ mainPc = "exit"
    /\ mainPc' = "exited"
    /\ ctxDone' = TRUE
    /\ UNCHANGED <<dbState, kafkaState, sources, forced, dpPc, tickerC,
                   lateTick, running, cycles, cycleVars, stockVars>>
    /\ UNCHANGED unitVars

(* ---- startDataProcessing ---- *)
\* a loop that starts each cycle with `go processData(...)` is back in
\* its select while the cycle executes
AtSelectAsync == dpPc = "select" \/ InCycle

\* the goroutine is in the select of the for loop; processData is called
\* synchronously, so it is not there while a cycle executes
AtSelect == dpPc = "select"

\* the ticker of line 105 exists and has not been stopped
TickerActive == dpPc = "select" \/ InCycle

\* main.go:102-108  NewTicker, then the loop is entered
StartDataProcessing ==
    /\ Alive
    /\ dpPc = "spawned"
    /\ dpPc' = "select"
    /\ UNCHANGED <<mainVars, tickerC, lateTick, running, cycles, cycleVars, stockVars>>
    /\ UNCHANGED unitVars

\* the runtime sends on ticker.C without blocking: a tick that finds the
\* buffer full is dropped
Tick ==
    /\ Alive
    /\ TickerActive
    /\ tickerC' = 1
    /\ lateTick' = IF tickerC = 0 THEN InCycle ELSE lateTick
    /\ UNCHANGED <<mainVars, dpPc, running, cycles, cycleVars, stockVars>>
    /\ UNCHANGED unitVars

\* main.go:112-114  case <-ctx.Done(): return (deferred ticker.Stop(),
\* and main.go:75 close(dataProcessingDone))
SelectDone ==
    /\ Alive
    /\ AtSelect
    /\ ctxDone
    /\ dpPc' = "returned"
    /\ UNCHANGED <<mainVars, tickerC, lateTick, running, cycles, cycleVars, stockVars>>
    /\ UNCHANGED unitVars

\* main.go:115-116  case <-ticker.C: processData(...) is entered
SelectTick ==
    /\ Alive
    /\ AtSelect
    /\ tickerC = 1
    /\ cycles < MaxCycles
    /\ tickerC' = 0
    /\ lateTick' = FALSE
    /\ cycles' = cycles + 1
    /\ running' = running + 1
    /\ dpPc' = "resolve"
    /\ symIdx' = 1
    /\ srcIdx' = 1
    /\ data' = <<>>
    /\ log' = EmptyLog
    /\ visited' = <<>>
    /\ UNCHANGED <<mainVars, budget, db, bus, stockVars>>
    /\ UNCHANGED unitVars

(* ---- processData, one (symbol, sourceName) pair ---- *)
\* main.go:128-135  resolve the source, then call GetMarketData
Resolve ==
    /\ Alive
    /\ dpPc = "resolve"
    /\ visited' = Append(visited, pair)
    /\ IF GetDataSource(sources, SourceNames[srcIdx]) = Nil
       THEN /\ log' = [log EXCEPT ![pair].fetch = "absent"]
            /\ Advance
       ELSE /\ log' = [log EXCEPT ![pair].fetch = "call"]
            /\ dpPc' = "fetch"
            /\ UNCHANGED <<symIdx, srcIdx, running>>
    /\ UNCHANGED <<mainVars, tickerC, lateTick, cycles, data, budget, db, bus,
                   stockVars>>
    /\ UNCHANGED unitVars

\* main.go:135-144  GetMarketData returns
FetchReturn ==
    /\ Alive
    /\ dpPc = "fetch"
    /\ LET sym == Symbols[symIdx]
           src == SourceNames[srcIdx]
           ref == [err |-> FALSE,
                   batch |-> ExchangeGetMarketData(cycles, sym, src)]
       IN \E r \in {[err |-> TRUE, batch |-> <<>>]} \cup
                   {[err |-> FALSE, batch |-> b] :
                        b \in FetchBatches(cycles, sym, src)} :
            /\ r = ref \/ budget > 0
            /\ budget' = IF r = ref THEN budget ELSE budget - 1
            /\ IF r.err
               THEN /\ log' = [log EXCEPT ![pair].fetch = "err"]
                    /\ data' = <<>>
                    /\ OnFetchError
               ELSE IF Len(r.batch) = 0
               THEN /\ log' = [log EXCEPT ![pair].fetch = "empty"]
                    /\ data' = <<>>
                    /\ OnEmptyBatch
               ELSE /\ log' = [log EXCEPT ![pair].fetch = "ok",
                                          ![pair].batch = r.batch]
                    /\ data' = r.batch
                    /\ dpPc' = "save"
                    /\ UNCHANGED <<symIdx, srcIdx, running>>
    /\ UNCHANGED <<mainVars, tickerC, lateTick, cycles, db, bus, stockVars,
                   visited>>
    /\ UNCHANGED unitVars

\* the sinks called with one observation of the fetched batch at a time
SinkArgOneByOne(fetched) == <<Head(fetched)>>

\* main.go:147, 153  both sinks are called with data, the slice that
\* GetMarketData returned
SinkArg(fetched) == fetched

\* main.go:147-150  db.SaveMarketData(data); on a closed pool Begin fails
Save ==
    /\ Alive
    /\ dpPc = "save"
    /\ \E failAt \in 0..(Len(data) + 2) :
         /\ (dbState # "open") => failAt = 1
         /\ (dbState = "open" /\ failAt # 0) => budget > 0
         /\ budget' = IF dbState = "open" /\ failAt # 0
                      THEN budget - 1 ELSE budget
         /\ LET r == SaveMarketData(db, SinkArg(data), failAt)
            IN /\ db' = r.rows
               /\ log' = [log EXCEPT
                            ![pair].save = IF r.err THEN "err" ELSE "ok",
                            ![pair].saveArg = SinkArg(data),
                            ![pair].saves = @ + 1]
               /\ IF r.err
                  THEN OnSaveError
                  ELSE /\ dpPc' = "send"
                       /\ UNCHANGED <<symIdx, srcIdx, running>>
    /\ UNCHANGED <<mainVars, tickerC, lateTick, cycles, data, bus, stockVars,
                   visited>>
    /\ UNCHANGED unitVars

\* main.go:153-158  kafkaProducer.SendMarketData(data); a closed producer
\* delivers nothing
Send ==
    /\ Alive
    /\ dpPc = "send"
    /\ \E lost \in SUBSET (1..Len(data)) :
         /\ (kafkaState # "open") => lost = 1..Len(data)
         /\ (kafkaState = "open" /\ lost # {}) => budget > 0
         /\ budget' = IF kafkaState = "open" /\ lost # {}
                      THEN budget - 1 ELSE budget
         /\ LET r == SendMarketData(bus, SinkArg(data),
                                    [i \in 1..Len(SinkArg(data)) |->
                                        IF i \in lost THEN "produce"
                                        ELSE "sent"])
            IN /\ bus' = r.topic
               /\ log' = [log EXCEPT
                            ![pair].send = IF r.err THEN "err" ELSE "ok",
                            ![pair].sendArg = SinkArg(data),
                            ![pair].sends = @ + 1]
               /\ OnSendDone(r.err)
    /\ UNCHANGED <<mainVars, tickerC, lateTick, cycles, data, db, stockVars,
                   visited>>
    /\ UNCHANGED unitVars

(* ---- specification ---- *)
Init ==
    /\ mainPc = "newStorage"
    /\ ctxDone = FALSE
    /\ dbState = "none"
    /\ kafkaState = "none"
    /\ sources = NewDataSourceFactory
    /\ forced = FALSE
    /\ dpPc = "none"
    /\ tickerC = 0
    /\ lateTick = FALSE
    /\ running = 0
    /\ cycles = 0
    /\ symIdx = 0
    /\ srcIdx = 0
    /\ data = <<>>
    /\ log = EmptyLog
    /\ budget = 0
    /\ db = {}
    /\ bus = {}
    /\ stockPc = "none"
    /\ stockTickerC = 0
    /\ stockListed = FALSE
    /\ visited = <<>>
    /\ call = Nothing
    /\ ret = Nothing
    /\ mutex = Unlocked
    /\ gor = <<>>
    /\ latest = NewDataSourceFactory

Next ==
    \/ NewPostgresStorage
    \/ NewKafkaProducer
    \/ RegisterSources
    \/ SchedulerStart
    \/ SchedulerStarted
    \/ StartApi
    \/ StockTick
    \/ StockFetch
    \/ StockFetchReturn
    \/ Spawn
    \/ Shutdown
    \/ DrainGraceful
    \/ DrainTimeout
    \/ CloseKafka
    \/ CloseDb
    \/ Exit
    \/ StartDataProcessing
    \/ Tick
    \/ SelectDone
    \/ SelectTick
    \/ Resolve
    \/ FetchReturn
    \/ Save
    \/ Send

Spec == Init /\ [][Next]_vars

\* main.go:90-95: the timer of time.After fires after 5 seconds and the
\* select then takes a ready case
FairSpec == Spec /\ WF_vars(DrainTimeout)

(* ---- one execution of processData ---- *)
\* processData has just been entered by the running process; registered is
\* what the factory passed to it holds
CycleInit ==
    /\ mainPc = "waitQuit"
    /\ ctxDone = FALSE
    /\ dbState = "open"
    /\ kafkaState = "open"
    /\ sources \in {[n \in S |-> n] : S \in SUBSET Range(SourceNames)}
    /\ forced = FALSE
    /\ dpPc = "resolve"
    /\ tickerC = 0
    /\ lateTick = FALSE
    /\ running = 1
    /\ cycles = 1
    /\ symIdx = 1
    /\ srcIdx = 1
    /\ data = <<>>
    /\ log = EmptyLog
    /\ budget = MaxFaults
    /\ db = {}
    /\ bus = {}
    /\ stockPc = "range"
    /\ stockTickerC = 0
    /\ stockListed = TRUE
    /\ visited = <<>>
    /\ call = Nothing
    /\ ret = Nothing
    /\ mutex = Unlocked
    /\ gor = <<>>
    /\ latest = sources

CycleNext ==
    \/ Resolve
    \/ FetchReturn
    \/ Save
    \/ Send

CycleSpec == CycleInit /\ [][CycleNext]_vars

(* ---- validateMarketData called alone (TestValidateMarketData) ---- *)
\* main is not running: the state of a test binary
NoProcess ==
    /\ mainPc = "newStorage"
    /\ ctxDone = FALSE
    /\ dbState = "none"
    /\ kafkaState = "none"
    /\ sources = NewDataSourceFactory
    /\ forced = FALSE
    /\ dpPc = "none"
    /\ tickerC = 0
    /\ lateTick = FALSE
    /\ running = 0
    /\ cycles = 0
    /\ symIdx = 0
    /\ srcIdx = 0
    /\ data = <<>>
    /\ log = EmptyLog
    /\ budget = 0
    /\ bus = {}
    /\ stockPc = "none"
    /\ stockTickerC = 0
    /\ stockListed = FALSE
    /\ visited = <<>>

\* no goroutine is calling into a DataSourceFactory
NoRegistry ==
    /\ mutex = Unlocked
    /\ gor = <<>>
    /\ latest = NewDataSourceFactory

processVars == <<mainVars, dpPc, tickerC, lateTick, running, cycles, symIdx,
                 srcIdx, data, log, budget, bus, stockVars, visited>>
registryVars == <<mutex, gor, latest>>

\* the observations handed to validateMarketData: every field takes a
\* value on each side of its rule
Observations ==
    {MarketData(id, symbol, price, volume, timestamp, source) :
        id \in {<<>>, <<1>>}, symbol \in {"", "BTCUSDT"},
        price \in {-1, 0, 1}, volume \in {-1, 0, 1},
        timestamp \in {0, 1}, source \in {"", "binance"}}

ValidateInit ==
    /\ NoProcess
    /\ NoRegistry
    /\ db = {}
    /\ call \in {[fn |-> "validateMarketData", arg |-> d] : d \in Observations}
    /\ ret = Nothing

\* err := validateMarketData(d)
Validate ==
    /\ call.fn = "validateMarketData"
    /\ ret = Nothing
    /\ ret' = [fn |-> call.fn, err |-> validateMarketData(call.arg)]
    /\ UNCHANGED <<processVars, registryVars, db, call>>

ValidateNext == Validate

ValidateSpec == ValidateInit /\ [][ValidateNext]_vars

(* ---- SaveMarketData called repeatedly on one store ---- *)
\* two observations sharing an id, one with another id, one breaking a rule
ObsA == MarketData(<<1>>, "BTCUSDT", 1, 1, 1, "binance")
ObsA2 == MarketData(<<1>>, "BTCUSDT", 2, 1, 1, "binance")
ObsB == MarketData(<<2>>, "ETHUSDT", 1, 0, 1, "okx")
ObsBad == MarketData(<<3>>, "BTCUSDT", 0, 1, 1, "binance")

\* the batches handed to SaveMarketData
StoreBatches ==
    {<<>>, <<ObsA>>, <<ObsA2>>, <<ObsB>>, <<ObsA, ObsB>>, <<ObsA, ObsA>>,
     <<ObsA, ObsA2>>, <<ObsB, ObsA2>>, <<ObsBad>>, <<ObsA, ObsBad>>}

\* call and ret hold the calls made so far and what each returned
StoreInit ==
    /\ NoProcess
    /\ NoRegistry
    /\ db = {}
    /\ call = <<>>
    /\ ret = <<>>

\* err := s.SaveMarketData(batch) on a storage whose pool is connected, or
\* on &PostgresStorage{} whose pool is nil: there the call of pool.Begin
\* is a nil dereference and the goroutine panics. before: the table when
\* the call was made.
SaveCall ==
    /\ Len(call) < MaxSaves
    /\ \E batch \in StoreBatches, pool \in {"open", "nil"} :
       \E failAt \in IF pool = "nil" THEN {1} ELSE 0..(Len(batch) + 2) :
         LET r == SaveMarketData(db, batch, failAt)
         IN /\ call' = Append(call, [fn |-> "SaveMarketData", batch |-> batch,
                                     pool |-> pool, failAt |-> failAt,
                                     before |-> db])
            /\ ret' = Append(ret, [err |-> r.err, rows |-> r.rows,
                                   began |-> r.began,
                                   panic |-> r.began /\ pool = "nil"])
            /\ db' = r.rows
    /\ UNCHANGED <<processVars, registryVars>>

StoreNext == SaveCall

StoreSpec == StoreInit /\ [][StoreNext]_vars

(* ---- goroutines calling into one DataSourceFactory ---- *)
Clients == 1..MaxClients

\* the names and sources handed to the factory; "unknown" is never bound
RegistryNames == {"binance", "okx"}
LookupNames == RegistryNames \cup {"unknown"}
RegistrySources == {"binance", "okx"}

Idle == [pc |-> "idle", fn |-> "none", name |-> "", source |-> Nil]

RegistryInit ==
    /\ NoProcess
    /\ db = {}
    /\ call = Nothing
    /\ ret = Nothing
    /\ mutex = Unlocked
    /\ gor = [g \in Clients |-> Idle]
    /\ latest = NewDataSourceFactory

storeVars == <<dbState, kafkaState, db, bus>>
restVars == <<mainPc, ctxDone, forced, dpPc, tickerC, lateTick, running,
              cycles, symIdx, srcIdx, data, log, budget, stockVars, visited>>

\* goroutine g calls Register, GetDataSource or ListDataSources
Invoke(g) ==
    /\ gor[g].pc = "idle"
    /\ \/ \E name \in RegistryNames, source \in RegistrySources :
            gor' = [gor EXCEPT ![g] = [pc |-> "lock", fn |-> "Register",
                                       name |-> name, source |-> source]]
       \/ \E name \in LookupNames :
            gor' = [gor EXCEPT ![g] = [pc |-> "lock", fn |-> "GetDataSource",
                                       name |-> name, source |-> Nil]]
       \/ gor' = [gor EXCEPT ![g] = [pc |-> "lock", fn |-> "ListDataSources",
                                     name |-> "", source |-> Nil]]
    /\ UNCHANGED <<sources, mutex, latest, call, ret, storeVars, restVars>>

\* sync.RWMutex.Lock with no regard for the readers inside
LockWaitsNever(m) == FALSE

\* sync.RWMutex.Lock waits until the readers inside have left
LockWaits(m) == m.readers # {}

\* f.mutex.Lock() (datasource.go:35): one writer at a time gets past the
\* writers' mutex; it announces itself, which holds back the readers to
\* come, and waits for the readers inside
Lock(g) ==
    /\ gor[g].pc = "lock"
    /\ gor[g].fn = "Register"
    /\ mutex.writer = 0
    /\ mutex.pending = 0
    /\ IF LockWaits(mutex)
       THEN /\ mutex' = [mutex EXCEPT !.pending = g]
            /\ gor' = [gor EXCEPT ![g].pc = "wwait"]
       ELSE /\ mutex' = [mutex EXCEPT !.writer = g]
            /\ gor' = [gor EXCEPT ![g].pc = "in"]
    /\ UNCHANGED <<sources, latest, call, ret, storeVars, restVars>>

\* f.mutex.RLock() (datasource.go:42, 49): the reader goes in unless a
\* writer is inside or announced, and waits for the writer's Unlock then
RLock(g) ==
    /\ gor[g].pc = "lock"
    /\ gor[g].fn \in {"GetDataSource", "ListDataSources"}
    /\ IF mutex.writer = 0 /\ mutex.pending = 0
       THEN /\ mutex' = [mutex EXCEPT !.readers = @ \cup {g}]
            /\ gor' = [gor EXCEPT ![g].pc = "in"]
       ELSE /\ gor' = [gor EXCEPT ![g].pc = "rwait"]
            /\ UNCHANGED mutex
    /\ UNCHANGED <<sources, latest, call, ret, storeVars, restVars>>

\* f.sources[name] = source and the deferred Unlock (datasource.go:36-37):
\* the readers that waited go in together
RegisterReturn(g) ==
    /\ gor[g].pc = "in"
    /\ gor[g].fn = "Register"
    /\ sources' = Register(sources, gor[g].name, gor[g].source)
    /\ latest' = [n \in DOMAIN latest \cup {gor[g].name} |->
                    IF n = gor[g].name THEN gor[g].source ELSE latest[n]]
    /\ mutex' = [writer |-> IF mutex.writer = g THEN 0 ELSE mutex.writer,
                 pending |-> mutex.pending,
                 readers |-> mutex.readers
                             \cup {h \in Clients : gor[h].pc = "rwait"}]
    /\ gor' = [h \in Clients |->
                 IF h = g THEN Idle
                 ELSE IF gor[h].pc = "rwait" THEN [gor[h] EXCEPT !.pc = "in"]
                 ELSE gor[h]]
    /\ call' = [fn |-> "Register", name |-> gor[g].name,
                source |-> gor[g].source]
    /\ ret' = [fn |-> "Register"]
    /\ UNCHANGED <<storeVars, restVars>>

\* the deferred RUnlock: the last reader to leave lets the announced
\* writer in
RUnlock(g) ==
    LET left == mutex.readers \ {g}
        handOver == left = {} /\ mutex.pending # 0
    IN /\ mutex' = [writer |-> IF handOver THEN mutex.pending
                               ELSE mutex.writer,
                    pending |-> IF handOver THEN 0 ELSE mutex.pending,
                    readers |-> left]
       /\ gor' = [h \in Clients |->
                    IF h = g THEN Idle
                    ELSE IF handOver /\ h = mutex.pending
                    THEN [gor[h] EXCEPT !.pc = "in"]
                    ELSE gor[h]]

\* return f.sources[name] (datasource.go:43-44)
GetDataSourceReturn(g) ==
    /\ gor[g].pc = "in"
    /\ gor[g].fn = "GetDataSource"
    /\ call' = [fn |-> "GetDataSource", name |-> gor[g].name]
    /\ ret' = [fn |-> "GetDataSource",
               val |-> GetDataSource(sources, gor[g].name)]
    /\ RUnlock(g)
    /\ UNCHANGED <<sources, latest, storeVars, restVars>>

\* the range loop and return names (datasource.go:50-55)
ListDataSourcesReturn(g) ==
    /\ gor[g].pc = "in"
    /\ gor[g].fn = "ListDataSources"
    /\ call' = [fn |-> "ListDataSources"]
    /\ \E names \in ListDataSources(sources) :
         ret' = [fn |-> "ListDataSources", val |-> names]
    /\ RUnlock(g)
    /\ UNCHANGED <<sources, latest, storeVars, restVars>>

RegistryNext ==
    \E g \in Clients :
        \/ Invoke(g)
        \/ Lock(g)
        \/ RLock(g)
        \/ RegisterReturn(g)
        \/ GetDataSourceReturn(g)
        \/ ListDataSourcesReturn(g)

RegistrySpec == RegistryInit /\ [][RegistryNext]_vars

(* ---- ExchangeDataSource.GetHistoricalData ---- *)
\* An instant is a number of half hours; a request string is either
\* well-formed RFC3339, carrying its instant, or malformed.
Hour == 2
Day == 24 * Hour

TimeStrings ==
    {[wellFormed |-> TRUE, instant |-> t] : t \in 1..MaxTime}
    \cup {[wellFormed |-> FALSE]}

\* time.Parse(time.RFC3339, s): the instant, or an error
ParseRFC3339(s) ==
    IF s.wellFormed THEN [err |-> FALSE, t |-> s.instant]
    ELSE [err |-> TRUE, t |-> 0]

\* exchange.go:54-57  start, or a day before now when it does not parse
StartOf(startTime, now) ==
    IF ParseRFC3339(startTime).err THEN now - Day
    ELSE ParseRFC3339(startTime).t

\* exchange.go:59-62  end, or now when it does not parse
EndOf(endTime, now) ==
    IF ParseRFC3339(endTime).err THEN now ELSE ParseRFC3339(endTime).t

\* a loop that also takes the instant end itself
LoopContinuesInclusive(current, end) == current <= end

\* exchange.go:66  current.Before(end)
LoopContinues(current, end) == current < end

\* the call, with the readings of time.Now() it will get at line 56 (now)
\* and at line 61 (later, not before the first); every instant asked for
\* lies within the day before now
HistoryInit ==
    /\ NoProcess
    /\ NoRegistry
    /\ db = {}
    /\ call \in {[fn |-> "GetHistoricalData", symbol |-> "BTCUSDT",
                  source |-> "binance", startTime |-> s, endTime |-> e,
                  now |-> Day + n, later |-> Day + n + d] :
                    s \in TimeStrings, e \in TimeStrings, n \in 1..MaxTime,
                    d \in {0, 1}}
    /\ ret = Nothing

\* exchange.go:49-65  the two parses and current := start
HistoryEnter ==
    /\ call.fn = "GetHistoricalData"
    /\ ret = Nothing
    /\ ret' = [fn |-> "GetHistoricalData", pc |-> "loop",
               start |-> StartOf(call.startTime, call.now),
               end |-> EndOf(call.endTime, call.later),
               current |-> StartOf(call.startTime, call.now),
               data |-> <<>>]
    /\ UNCHANGED <<processVars, registryVars, db, call>>

\* exchange.go:66-78  one turn of the loop, or its end and return data, nil
HistoryLoop ==
    /\ ret.fn = "GetHistoricalData"
    /\ ret.pc = "loop"
    /\ IF LoopContinues(ret.current, ret.end)
       THEN ret' = [ret EXCEPT
                      !.data = Append(@, MarketData(<<Len(@) + 1>>,
                                   call.symbol, 1, 1, ret.current,
                                   call.source)),
                      !.current = @ + Hour]
       ELSE ret' = [ret EXCEPT !.pc = "returned"]
    /\ UNCHANGED <<processVars, registryVars, db, call>>

HistoryNext == HistoryEnter \/ HistoryLoop

HistorySpec == HistoryInit /\ [][HistoryNext]_vars

(* ---- calls on one KafkaProducer (kafka_test.go) ---- *)
\* the observations handed to the bus: each field the bus validator reads
\* on each side of its rule, and a price on each side of the storage rule
BusObservations ==
    {MarketData(<<1>>, symbol, price, 1, timestamp, source) :
        symbol \in {"", "BTCUSDT"}, price \in {0, 1},
        timestamp \in {0, 1}, source \in {"", "binance"}}

BusBatches ==
    {<<>>, <<ObsA>>, <<ObsA, ObsB>>, <<ObsB, ObsA2>>, <<ObsBad>>,
     <<ObsA, MarketData(<<4>>, "", 1, 1, 1, "binance")>>,
     <<MarketData(<<5>>, "BTCUSDT", 1, 1, 0, "binance"), ObsB>>,
     <<MarketData(<<6>>, "BTCUSDT", 1, 1, 1, "")>>}

\* call and ret hold the calls made so far and what each returned
BusInit ==
    /\ NoProcess
    /\ NoRegistry
    /\ db = {}
    /\ call = <<>>
    /\ ret = <<>>

\* err := validateMarketDataForKafka(d)
ValidateForKafkaCall ==
    /\ Len(call) < MaxSends
    /\ \E d \in BusObservations :
         /\ call' = Append(call, [fn |-> "validateMarketDataForKafka",
                                  arg |-> d])
         /\ ret' = Append(ret, [err |-> validateMarketDataForKafka(d)])
    /\ UNCHANGED <<mainVars, dpPc, tickerC, lateTick, running, cycles, cycleVars,
                   stockVars, registryVars>>

\* err := p.SendMarketData(batch); before: the topic when the call was made
SendCall ==
    /\ Len(call) < MaxSends
    /\ \E batch \in BusBatches : \E fate \in [1..Len(batch) -> Fates] :
         LET r == SendMarketData(bus, batch, fate)
         IN /\ call' = Append(call, [fn |-> "SendMarketData", batch |-> batch,
                                     fate |-> fate, before |-> bus])
            /\ ret' = Append(ret, r)
            /\ bus' = r.topic
    /\ UNCHANGED <<mainVars, dpPc, tickerC, lateTick, running, cycles, symIdx,
                   srcIdx, data, log, budget, db, visited, stockVars,
                   registryVars>>

BusNext == ValidateForKafkaCall \/ SendCall

BusSpec == BusInit /\ [][BusNext]_vars

(* ---- processData at the sinks, whatever the source returned ---- *)
\* one observation of any make, or two of them
SinkBatches ==
    {<<d>> : d \in Observations}
    \cup {<<ObsA, ObsB>>, <<ObsA, ObsBad>>,
          <<ObsB, MarketData(<<4>>, "", 1, 1, 1, "binance")>>}

\* GetMarketData has just returned a non-empty batch for the first pair
\* (main.go:135-144)
SinkInit ==
    /\ mainPc = "waitQuit"
    /\ ctxDone = FALSE
    /\ dbState = "open"
    /\ kafkaState = "open"
    /\ sources = [n \in Range(SourceNames) |-> n]
    /\ forced = FALSE
    /\ dpPc = "save"
    /\ tickerC = 0
    /\ lateTick = FALSE
    /\ running = 1
    /\ cycles = 1
    /\ symIdx = 1
    /\ srcIdx = 1
    /\ data \in SinkBatches
    /\ log = [EmptyLog EXCEPT ![<<1, 1>>].fetch = "ok",
                              ![<<1, 1>>].batch = data]
    /\ budget = MaxFaults
    /\ db = {}
    /\ bus = {}
    /\ stockPc = "range"
    /\ stockTickerC = 0
    /\ stockListed = TRUE
    /\ visited = <<<<1, 1>>>>
    /\ call = Nothing
    /\ ret = Nothing
    /\ mutex = Unlocked
    /\ gor = <<>>
    /\ latest = sources

\* main.go:146-158  the rest of the loop body
SinkNext == Save \/ Send

SinkSpec == SinkInit /\ [][SinkNext]_vars

(* ---- the scheduler's lifecycle, read off main() ---- *)
\* Idle until the data-processing goroutine is started (main.go:74),
\* Running until the signal is received and cancel() called (82-87),
\* Draining during the select on dataProcessingDone and the timer (90-95),
\* Stopped from then on (97)
Lifecycle ==
    CASE mainPc \in {"newStorage", "newKafka", "register", "schedulerStart",
                     "fetchStockList", "startApi", "spawn", "fatal"}
          -> "Idle"
      [] mainPc = "waitQuit" -> "Running"
      [] mainPc = "drain" -> "Draining"
      [] mainPc \in {"stopped", "closeDb", "exit", "exited"} -> "Stopped"

(* ---- vocabulary of the properties ---- *)
Rank(l) ==
    CASE l = "Idle" -> 0
      [] l = "Running" -> 1
      [] l = "Draining" -> 2
      [] l = "Stopped" -> 3

\* a step in which processData is entered
CycleBegins == cycles' = cycles + 1

\* the six field rules of an observation
SixRules(d) ==
    /\ d.ID # <<>>
    /\ d.Symbol # ""
    /\ d.Price > 0
    /\ d.Volume >= 0
    /\ d.Timestamp # 0
    /\ d.Source # ""

\* pair p comes before pair q in the order of the two loops
Before(p, q) == p[1] < q[1] \/ (p[1] = q[1] /\ p[2] < q[2])

\* the cycle whose calls log records has returned
CycleOver == cycles >= 1 /\ dpPc \in {"select", "returned"}

\* the cycle is past pair q
Done(q) == CycleOver \/ (InCycle /\ Before(q, pair))

\* pair q was fetched, and its batch went to storage and, once stored,
\* to the bus
Handled(q) ==
    /\ log[q].fetch \in {"absent", "err", "empty", "ok"}
    /\ log[q].fetch = "ok" =>
         log[q].save # "none" /\ log[q].saveArg = log[q].batch
    /\ log[q].save = "ok" =>
         log[q].send # "none" /\ log[q].sendArg = log[q].batch

(* ---- properties ---- *)
\* C1: SendMarketData is called for a pair only after SaveMarketData was
\* called with the same batch and returned success; after a save error the
\* bus is not called for that pair in that cycle.
C1_StorageBeforeBus ==
    \A p \in Pairs :
        /\ log[p].send # "none" =>
             log[p].save = "ok" /\ log[p].saveArg = log[p].sendArg
        /\ log[p].save = "err" => log[p].send = "none"

C1_Witness ==
    /\ CycleOver
    /\ \E p, q \in Pairs :
         /\ log[p].save = "err" /\ log[p].send = "none"
         /\ log[q].save = "ok" /\ log[q].send = "ok"

\* C2: a fetched batch with at least one observation breaking a rule has
\* none of its observations in the store and none on the bus, and the bus
\* is not called for the pair.
C2_FailClosed ==
    \A p \in Pairs :
        (/\ log[p].fetch = "ok"
         /\ \E i \in 1..Len(log[p].batch) : ~SixRules(log[p].batch[i]))
        => /\ log[p].save # "ok"
           /\ log[p].send = "none"
           /\ Range(log[p].batch) \cap db = {}
           /\ Range(log[p].batch) \cap bus = {}

C2_Witness ==
    \E p \in Pairs :
        /\ log[p].save = "err"
        /\ Done(p)
        /\ \E i, j \in 1..Len(log[p].batch) :
             ~SixRules(log[p].batch[i]) /\ SixRules(log[p].batch[j])

\* C3: when the fetch of one pair fails, the pairs sharing its symbol or
\* its source are still fetched in the same cycle and their batches handed
\* to the sinks.
C3_Isolation ==
    \A p, q \in Pairs :
        (/\ log[p].fetch = "err"
         /\ q # p
         /\ q[1] = p[1] \/ q[2] = p[2]
         /\ Done(q))
        => Handled(q)

C3_Witness ==
    /\ CycleOver
    /\ log[<<1, 1>>].fetch = "err"
    /\ log[<<1, 2>>].save = "ok" /\ log[<<1, 2>>].send = "ok"
    /\ log[<<2, 1>>].save = "ok" /\ log[<<2, 1>>].send = "ok"

\* C4: after a bus error for a pair the batch saved for it is still in
\* the store, and every later pair of the cycle is processed.
C4_BusFailureContinues ==
    \A p \in Pairs :
        log[p].send = "err" =>
            /\ log[p].save = "ok"
            /\ Range(log[p].batch) \subseteq db
            /\ \A q \in Pairs : (Before(p, q) /\ Done(q)) => Handled(q)

C4_Witness ==
    /\ CycleOver
    /\ \E p, q \in Pairs :
         /\ Before(p, q)
         /\ log[p].send = "err"
         /\ Range(log[p].batch) \subseteq db
         /\ log[q].save = "ok" /\ log[q].send = "ok"

\* C5: a tick that fires while a cycle is executing is skipped, not
\* queued: no cycle is started by such a tick once the cycle has returned.
C5_DropOnOverlap == [][CycleBegins => ~lateTick]_vars

\* C6: at most one execution of processData is in progress.
C6_NotReentrant == running <= 1

C6_Witness == running = 1 /\ tickerC = 1 /\ lateTick

\* C7: the periodic loop is entered only after a first cycle has been
\* executed and has returned.
C7_ImmediateFirstCycle == dpPc = "select" => cycles >= 1

\* C8: once stop is requested the system eventually reaches Stopped,
\* whether or not the cycle in flight finishes.
C8_EventuallyStopped == (mainPc = "drain") ~> (Lifecycle = "Stopped")

C8_Witness == mainPc = "stopped" /\ forced /\ dpPc = "fetch"

\* C9: no execution of processData begins once cancel() has been called.
C9_NoCycleAfterCancel == [][ctxDone => ~CycleBegins]_vars

\* C10: the lifecycle never goes back to an earlier state, and no cycle
\* begins while the scheduler is Idle or once it is Stopped.
C10_LinearLifecycle ==
    [][/\ Rank(Lifecycle') >= Rank(Lifecycle)
       /\ CycleBegins => Lifecycle \in {"Running", "Draining"}]_vars

\* the fields in the order validateMarketData asks for them
FieldOrder == <<"id", "symbol", "price", "volume", "timestamp", "source">>

\* observation d breaks the rule of field f
Violates(d, f) ==
    CASE f = "id" -> d.ID = <<>>
      [] f = "symbol" -> d.Symbol = ""
      [] f = "price" -> ~(d.Price > 0)
      [] f = "volume" -> ~(d.Volume >= 0)
      [] f = "timestamp" -> d.Timestamp = 0
      [] f = "source" -> d.Source = ""

\* the field a validation message names
FieldNamed(msg) ==
    CASE msg = "id is required" -> "id"
      [] msg = "symbol is required" -> "symbol"
      [] msg = "price must be greater than 0" -> "price"
      [] msg = "volume cannot be negative" -> "volume"
      [] msg = "timestamp is required" -> "timestamp"
      [] msg = "source is required" -> "source"
      [] OTHER -> "none"

\* validateMarketData has returned
Validated == ret.fn = "validateMarketData"

\* C11: validateMarketData succeeds exactly for the observations that keep
\* all six rules (id, symbol and source non-empty, price above zero, volume
\* not negative, timestamp not zero); an observation breaking one rule and
\* no other is rejected.
C11_ValidIffSixRules ==
    Validated =>
        /\ (ret.err = "") <=> SixRules(call.arg)
        /\ \A i \in 1..Len(FieldOrder) :
             (/\ Violates(call.arg, FieldOrder[i])
              /\ \A j \in 1..Len(FieldOrder) :
                   j # i => ~Violates(call.arg, FieldOrder[j]))
             => ret.err # ""

\* a price of zero, every other rule kept, has been rejected
C11_Witness ==
    /\ Validated
    /\ call.arg.Price = 0
    /\ \A i \in 1..Len(FieldOrder) :
         Violates(call.arg, FieldOrder[i]) <=> FieldOrder[i] = "price"
    /\ ret.err # ""

\* C12: the message of a rejected observation names the first field, in
\* the order id, symbol, price, volume, timestamp, source, whose rule the
\* observation breaks, whatever other rules it breaks as well.
C12_FirstViolatedField ==
    (Validated /\ ~SixRules(call.arg)) =>
        \E i \in 1..Len(FieldOrder) :
            /\ Violates(call.arg, FieldOrder[i])
            /\ \A j \in 1..(i - 1) : ~Violates(call.arg, FieldOrder[j])
            /\ FieldNamed(ret.err) = FieldOrder[i]

\* an observation without id, without symbol and with a negative volume
\* has been answered with the id
C12_Witness ==
    /\ Validated
    /\ Violates(call.arg, "id")
    /\ Violates(call.arg, "symbol")
    /\ Violates(call.arg, "volume")
    /\ FieldNamed(ret.err) = "id"

\* the rows of a table stored under the id of observation o
RowsOf(rows, o) == {r \in rows : r.ID = o.ID}

\* C13: when SaveMarketData has stored an observation, a later call with
\* the identical observation leaves the row under its id as it was, exactly
\* one row, and a repeated call with the identical batch returns no error
\* and leaves the whole table as the first call left it (the store being
\* reachable in the second call).
C13_SaveIdempotent ==
    \A i \in 1..Len(call) : \A j \in (i + 1)..Len(call) :
        /\ (~ret[i].err /\ ~ret[j].err)
           => \A o \in Range(call[i].batch) \cap Range(call[j].batch) :
                /\ RowsOf(ret[j].rows, o) = RowsOf(ret[i].rows, o)
                /\ Cardinality(RowsOf(ret[j].rows, o)) = 1
        /\ (/\ j = i + 1
            /\ call[j].batch = call[i].batch
            /\ ~ret[i].err
            /\ call[j].failAt = 0)
           => /\ ~ret[j].err
              /\ ret[j].rows = ret[i].rows

\* the same two observations have been saved twice in a row
C13_Witness ==
    /\ Len(call) >= 2
    /\ call[1].batch = <<ObsA, ObsB>>
    /\ call[2].batch = <<ObsA, ObsB>>
    /\ ~ret[1].err
    /\ ~ret[2].err
    /\ db = {ObsA, ObsB}

\* goroutine g is inside the critical section of the factory's mutex
Inside(g) == gor[g].pc = "in"

\* C14: GetDataSource(name) returns the source of the last Register carried
\* out for that name, and nil for a name no Register was carried out for.
C14_LatestBinding ==
    call.fn = "GetDataSource" =>
        ret.val = IF call.name \in DOMAIN latest THEN latest[call.name]
                  ELSE Nil

\* a name registered twice, with two sources, has been looked up
C14_Witness ==
    /\ call.fn = "GetDataSource"
    /\ call.name = "binance"
    /\ ret.val = "okx"
    /\ "okx" \notin DOMAIN sources

\* C15: no goroutine in GetDataSource ever waits for the mutex because a
\* Register holds it or is acquiring it.
C15_LookupNeverBlocks ==
    \A g \in Clients :
        gor[g].fn = "GetDataSource" => gor[g].pc # "rwait"

\* C16: a goroutine in Register is never inside the critical section
\* together with another goroutine, and a lookup that finds no Register
\* inside or announced goes in whatever lookups are inside.
C16_ReadersShareWriterAlone ==
    /\ \A g, h \in Clients :
         (Inside(g) /\ gor[g].fn = "Register" /\ h # g) => ~Inside(h)
    /\ \A g \in Clients :
         gor[g].pc = "rwait" => (mutex.writer # 0 \/ mutex.pending # 0)

\* a GetDataSource and a ListDataSources are inside at the same time
C16_Witness ==
    \E g, h \in Clients :
        /\ Inside(g) /\ gor[g].fn = "GetDataSource"
        /\ Inside(h) /\ gor[h].fn = "ListDataSources"

\* C17: ListDataSources returns the names a Register has been carried out
\* for, each of them once and no other.
C17_ListIsSnapshot ==
    call.fn = "ListDataSources" =>
        /\ Range(ret.val) = DOMAIN latest
        /\ Len(ret.val) = Cardinality(DOMAIN latest)

\* both names listed after one of them was registered twice
C17_Witness ==
    /\ call.fn = "ListDataSources"
    /\ Len(ret.val) = 2
    /\ latest["binance"] = "okx"

\* the pairs of the product, symbols in the outer loop, sources in the
\* inner loop, each in the order given
ProductOrder ==
    [k \in 1..(Len(Symbols) * Len(SourceNames)) |->
        <<((k - 1) \div Len(SourceNames)) + 1,
          ((k - 1) % Len(SourceNames)) + 1>>]

\* C18: the pairs a cycle has come to are, at each moment, the first pairs
\* of the product in the order symbols outside, sources inside, and once
\* the cycle is over they are all of them, each once, whatever happened to
\* the earlier pairs.
C18_ProductOrder ==
    /\ Len(visited) <= Len(ProductOrder)
    /\ \A k \in 1..Len(visited) : visited[k] = ProductOrder[k]
    /\ CycleOver => visited = ProductOrder

\* a cycle is over in which the first pair failed to fetch and the second
\* failed to save
C18_Witness ==
    /\ CycleOver
    /\ visited = ProductOrder
    /\ log[<<1, 1>>].fetch = "err"
    /\ log[<<1, 2>>].save = "err"

\* a sink was called for pair p
SinkCalled(p) == log[p].save # "none" \/ log[p].send # "none"

\* C19: SaveMarketData or SendMarketData is called for a pair only when
\* its source is registered, its fetch returned without error and the
\* batch holds an observation; a pair whose source is absent, whose fetch
\* failed or whose batch is empty gets no sink call and leaves nothing in
\* the store or on the bus, and the pairs after it are processed.
C19_SinkOnlyForFetchedData ==
    \A p \in Pairs :
        /\ SinkCalled(p) =>
             /\ GetDataSource(sources, SourceNames[p[2]]) # Nil
             /\ log[p].fetch = "ok"
             /\ Len(log[p].batch) > 0
        /\ log[p].fetch \in {"absent", "err", "empty"} =>
             /\ ~SinkCalled(p)
             /\ \A q \in Pairs : (Before(p, q) /\ Done(q)) => Handled(q)
        /\ log[p].fetch = "absent" =>
             GetDataSource(sources, SourceNames[p[2]]) = Nil

\* a cycle is over in which one source was absent, one fetch failed, one
\* fetch was empty and the last fetch went to both sinks
C19_Witness ==
    /\ CycleOver
    /\ log[<<1, 1>>].fetch = "err"
    /\ log[<<1, 2>>].fetch = "absent"
    /\ log[<<2, 1>>].fetch = "empty"
    /\ log[<<3, 1>>].send = "ok"
    /\ \A p \in Pairs : log[p].fetch # "ok" => ~SinkCalled(p)

\* main() has not got as far as scheduler.Start()
BeforeScheduler ==
    /\ mainPc \in {"newStorage", "newKafka", "register", "fatal"}
    /\ dpPc = "none"
    /\ stockPc = "none"
    /\ cycles = 0

\* C20: when NewPostgresStorage or NewKafkaProducer has failed the process
\* has ended before scheduler.Start(): the scheduler was not started, no
\* stock list was fetched and no cycle has run; nothing of the kind happens
\* either while the store or the producer is not yet there.
C20_FatalStartup ==
    /\ mainPc = "fatal" => BeforeScheduler
    /\ (dbState = "none" \/ kafkaState = "none") =>
         (BeforeScheduler /\ mainPc # "register")

\* NewKafkaProducer failed with the store open
C20_Witness ==
    /\ mainPc = "fatal"
    /\ dbState = "open"
    /\ kafkaState = "none"

\* how far processData has come: the pairs behind it and, within the pair
\* at hand, the call it is at
Position ==
    IF ~InCycle THEN 4 * Len(ProductOrder)
    ELSE 4 * ((symIdx - 1) * Len(SourceNames) + (srcIdx - 1))
         + CASE dpPc = "resolve" -> 0
             [] dpPc = "fetch" -> 1
             [] dpPc = "save" -> 2
             [] dpPc = "send" -> 3

\* C21: whatever sources are absent and whatever fetches, saves and sends
\* fail, processData is never stuck before its end (the call it is at can
\* return), every return takes it further through the pairs and never
\* back, and it ends only after the last pair, every pair dealt with, with
\* startDataProcessing back at its select for the next tick.
C21_CycleTerminates ==
    /\ [](~CycleOver => ENABLED CycleNext)
    /\ [][/\ Position' > Position
          /\ CycleOver' => /\ dpPc' = "select"
                           /\ visited' = ProductOrder
                           /\ \A p \in Pairs : Handled(p)']_vars

\* a cycle with an absent source, a failed save and a failed send is over
C21_Witness ==
    /\ CycleOver
    /\ dpPc = "select"
    /\ log[<<1, 2>>].fetch = "absent"
    /\ log[<<1, 1>>].save = "err"
    /\ log[<<2, 1>>].send = "err"

\* the rows of a table or the messages of the topic that came from pair p
\* in the cycle at hand
FromPair(set, p) ==
    {d \in set : d.ID[1] = cycles /\ d.Symbol = Symbols[p[1]]
                 /\ d.Source = SourceNames[p[2]]}

InHistoryLoop == ret.fn = "GetHistoricalData" /\ ret.pc = "loop"
HistoryReturned == ret.fn = "GetHistoricalData" /\ ret.pc = "returned"

\* the range asked for: the instants of the two strings, with the code's
\* defaults for a string that is not RFC3339
RangeStart ==
    IF call.startTime.wellFormed THEN call.startTime.instant
    ELSE call.now - Day
RangeEnd ==
    IF call.endTime.wellFormed THEN call.endTime.instant ELSE call.later

\* C23: GetHistoricalData returns its observations in strictly ascending
\* order of timestamp, every timestamp at or after the start and before
\* the end of the range asked for, and none when the end is not after the
\* start; the loop is never stuck and every turn brings current closer to
\* the end by an hour, so the call returns for every range.
C23_HistoricalAscendingInRange ==
    /\ [](HistoryReturned =>
            /\ \A i \in 1..Len(ret.data) :
                 /\ RangeStart <= ret.data[i].Timestamp
                 /\ ret.data[i].Timestamp < RangeEnd
            /\ \A i \in 1..(Len(ret.data) - 1) :
                 ret.data[i].Timestamp < ret.data[i + 1].Timestamp
            /\ ~(RangeEnd > RangeStart) => ret.data = <<>>)
    /\ [](InHistoryLoop => ENABLED HistoryNext)
    /\ [][InHistoryLoop =>
            \/ ret'.pc = "returned"
            \/ /\ ret.end - ret.current > 0
               /\ ret'.end - ret'.current < ret.end - ret.current]_vars

\* a range of an hour and a half has given two observations, an hour
\* apart
C23_Witness ==
    /\ HistoryReturned
    /\ call.startTime.wellFormed
    /\ call.endTime.wellFormed
    /\ RangeEnd - RangeStart = 3
    /\ Len(ret.data) = 2
    /\ ret.data[2].Timestamp = ret.data[1].Timestamp + Hour

\* C24: SaveMarketData returns no error for an empty batch and an error for
\* a batch with an observation that breaks a rule; in both cases it returns
\* before pool.Begin, so that it does so on a storage without a pool as
\* well, and the table is as it was.
C24_NoDatabaseForEmptyOrInvalid ==
    \A i \in 1..Len(call) :
        LET empty == Len(call[i].batch) = 0
            invalid == \E k \in 1..Len(call[i].batch) :
                           ~SixRules(call[i].batch[k])
        IN /\ empty => ~ret[i].err
           /\ invalid => ret[i].err
           /\ (empty \/ invalid) =>
                /\ ~ret[i].began
                /\ ~ret[i].panic
                /\ ret[i].rows = call[i].before

\* on a storage without a pool an empty batch was saved without error and
\* a batch with an invalid observation refused
C24_Witness ==
    /\ Len(call) = 2
    /\ call[1].pool = "nil" /\ call[1].batch = <<>> /\ ~ret[1].err
    /\ call[2].pool = "nil" /\ call[2].batch = <<ObsA, ObsBad>>
    /\ ret[2].err /\ ~ret[2].panic

\* C27: a SaveMarketData in which Begin, one of the Execs or Commit fails
\* returns an error, and a call that returns an error leaves the table as
\* it was; a call that returns no error leaves in the table every row that
\* was there and, for every observation of the batch whose id was not
\* stored when its insert ran, that observation, and nothing else.
C27_AllOrNothing ==
    \A i \in 1..Len(call) :
        LET batch == call[i].batch
            before == call[i].before
            after == ret[i].rows
        IN /\ (/\ call[i].failAt # 0
               /\ Len(batch) > 0
               /\ \A k \in 1..Len(batch) : SixRules(batch[k]))
              => ret[i].err
           /\ ret[i].err => after = before
           /\ ~ret[i].err =>
                /\ before \subseteq after
                /\ after \ before \subseteq Range(batch)
                /\ \A k \in 1..Len(batch) :
                     (/\ RowsOf(before, batch[k]) = {}
                      /\ \A j \in 1..(k - 1) : batch[j].ID # batch[k].ID)
                     => batch[k] \in after

\* the Exec of the second observation failed and nothing of the batch was
\* kept; the next batch went in whole
C27_Witness ==
    /\ Len(call) = 2
    /\ call[1].batch = <<ObsA, ObsB>> /\ call[1].failAt = 3
    /\ ret[1].err /\ ret[1].rows = {}
    /\ call[2].batch = <<ObsB, ObsA2>> /\ call[2].failAt = 0
    /\ ~ret[2].err /\ db = {ObsB, ObsA2}

\* the three rules of the bus
KafkaRules(d) == d.Symbol # "" /\ d.Timestamp # 0 /\ d.Source # ""

\* C25: validateMarketDataForKafka succeeds exactly for the observations
\* with a symbol, a non-zero timestamp and a source; SendMarketData returns
\* no error for an empty batch, and for a batch with an observation the
\* validator refuses it returns an error without a Marshal or a Produce,
\* the topic being as it was.
C25_BusValidation ==
    \A i \in 1..Len(call) :
        /\ call[i].fn = "validateMarketDataForKafka" =>
             ((ret[i].err = "") <=> KafkaRules(call[i].arg))
        /\ call[i].fn = "SendMarketData" =>
             /\ Len(call[i].batch) = 0 => ~ret[i].err
             /\ (\E k \in 1..Len(call[i].batch) :
                    ~KafkaRules(call[i].batch[k]))
                => /\ ret[i].err
                   /\ ret[i].marshalled = <<>>
                   /\ ret[i].topic = call[i].before

\* an observation with a zero price passed the bus validator, and a batch
\* whose second observation has no symbol was refused whole
C25_Witness ==
    /\ Len(call) = 2
    /\ call[1].fn = "validateMarketDataForKafka"
    /\ call[1].arg.Price = 0
    /\ ret[1].err = ""
    /\ call[2].fn = "SendMarketData"
    /\ Len(call[2].batch) = 2
    /\ ~KafkaRules(call[2].batch[2])
    /\ ret[2].err
    /\ bus = {}

\* C30: for a batch that passes the validator SendMarketData goes through
\* every observation, whatever failed before it, and publishes those whose
\* Marshal and Produce succeed and that Flush delivers; it returns an error
\* exactly when a Marshal or a Produce failed or a message was left
\* unflushed, so that an error can come with part of the batch published.
C30_SendAttemptsAll ==
    \A i \in 1..Len(call) :
        (/\ call[i].fn = "SendMarketData"
         /\ \A k \in 1..Len(call[i].batch) : KafkaRules(call[i].batch[k]))
        => /\ Len(ret[i].marshalled) = Len(call[i].batch)
           /\ \A k \in 1..Len(call[i].batch) :
                call[i].fate[k] = "sent" => call[i].batch[k] \in ret[i].topic
           /\ ret[i].topic \ call[i].before \subseteq
                {call[i].batch[k] : k \in {j \in 1..Len(call[i].batch) :
                                              call[i].fate[j] = "sent"}}
           /\ ret[i].err <=>
                \E k \in 1..Len(call[i].batch) : call[i].fate[k] # "sent"

\* the Produce of the first observation failed, the second was published
\* and the call returned an error
C30_Witness ==
    /\ Len(call) >= 1
    /\ call[1].fn = "SendMarketData"
    /\ call[1].batch = <<ObsA, ObsB>>
    /\ call[1].fate = <<"produce", "sent">>
    /\ ret[1].err
    /\ ret[1].topic = {ObsB}

\* C26: an observation the storage validator accepts is accepted by the
\* bus validator; so a batch that SaveMarketData stored is not refused by
\* the validation of SendMarketData, and every observation on the bus
\* keeps the six rules.
C26_StorageStricterThanBus ==
    /\ \A i \in 1..Len(data) :
         validateMarketData(data[i]) = "" =>
             validateMarketDataForKafka(data[i]) = ""
    /\ \A p \in Pairs :
         log[p].save = "ok" =>
             /\ ~SendValidationFails(log[p].saveArg)
             /\ log[p].send = "err" =>
                  log[p].sendArg = log[p].saveArg
    /\ \A d \in bus : SixRules(d)

\* an observation with a volume of zero was stored and published
C26_Witness ==
    /\ log[<<1, 1>>].save = "ok"
    /\ log[<<1, 1>>].send = "ok"
    /\ Len(log[<<1, 1>>].batch) = 1
    /\ log[<<1, 1>>].batch[1].Volume = 0
    /\ bus = Range(log[<<1, 1>>].batch)

\* this step is a call of SaveMarketData or of SendMarketData
SinkCallStep ==
    \E p \in Pairs : \/ log'[p].saves = log[p].saves + 1
                     \/ log'[p].sends = log[p].sends + 1

\* C28: once kafkaProducer.Close() or db.Close() has run, no call of
\* SaveMarketData or SendMarketData is made any more, the forced stop after
\* the grace timeout with a cycle in flight included.
C28_NoSinkAfterClose ==
    [][(dbState = "closed" \/ kafkaState = "closed") => ~SinkCallStep]_vars

\* main() is past scheduler.Start(): it is starting or has started the API
\* server, the data-processing goroutine and the signal handling
PastSchedulerStart ==
    mainPc \notin {"newStorage", "newKafka", "register", "schedulerStart",
                   "fetchStockList", "fatal"}

\* C29: main gets past scheduler.Start() only when the first fetchStockList
\* has returned: the API server, the loop of startDataProcessing and the
\* wait for a signal begin after it, and while that fetch has not returned
\* none of them has begun, nor the ticker goroutine of the scheduler.
C29_StartAfterFirstFetch ==
    /\ (PastSchedulerStart \/ dpPc # "none" \/ cycles > 0 \/ ctxDone)
         => stockListed
    /\ mainPc = "fetchStockList" =>
         /\ ~stockListed
         /\ dpPc = "none"
         /\ stockPc = "none"
         /\ cycles = 0
         /\ ~ctxDone

\* the data-processing goroutine is started, after the first fetch
C29_Witness ==
    /\ mainPc = "waitQuit"
    /\ dpPc = "spawned"
    /\ stockListed
    /\ stockPc = "range"

====
